---------------------------- MODULE Spec2Model ----------------------------
(***************************************************************************)
(* A model of libs/shared/ui-components/src/Team/TeamMember/               *)
(* TeamMemberGithub.tsx: the function component TeamMemberGithub, which    *)
(* takes a props object, reads its githubNick property and returns the     *)
(* element tree                                                            *)
(*     <Link href={`https://github.com/${githubNick}`}>                    *)
(*       <a> <svg ...> <path .../> <path .../> </svg> </a>                 *)
(*     </Link>                                                             *)
(* The state is the history of invocations (the props each was given, the  *)
(* world it ran in and what it returned) and the world outside the call.   *)
(*                                                                         *)
(* A JavaScript string is modelled as the sequence of its characters, each *)
(* a one-character TLA+ string, so that concatenation is \o and a prefix   *)
(* is a SubSeq.  Attribute values that the source writes as literals are   *)
(* kept as TLA+ strings.                                                   *)
(***************************************************************************)
EXTENDS Integers, Sequences, FiniteSets

(***************************************************************************)
(* Bounds of the model.                                                    *)
(***************************************************************************)
\* The number of invocations of the component in one behaviour.
MaxCalls == 3
\* The length of the identifiers enumerated exhaustively.
MaxIdLen == 3

(***************************************************************************)
(* JavaScript values that can arrive as the githubNick property.  The      *)
(* declared type is a string; types are erased at run time, so the other   *)
(* primitive kinds are modelled too.                                       *)
(***************************************************************************)
JSString(s) == [t |-> "string", s |-> s, n |-> 0]
JSUndefined == [t |-> "undefined", s |-> <<>>, n |-> 0]
JSNumber(n) == [t |-> "number", s |-> <<>>, n |-> n]
JSSymbol == [t |-> "symbol", s |-> <<>>, n |-> 0]

\* The decimal digits of a natural number, as Number::toString gives them.
RECURSIVE DecimalDigits(_)
DecimalDigits(n) ==
  LET digit == <<"0", "1", "2", "3", "4", "5", "6", "7", "8", "9">>
  IN  IF n < 10 THEN <<digit[n + 1]>>
      ELSE DecimalDigits(n \div 10) \o <<digit[(n % 10) + 1]>>

\* The abstract operation ToString that a template literal applies to a
\* substitution: a string is taken as it is, undefined and numbers are
\* spelled out, and a Symbol raises a TypeError.
\* A faulty variant of JSToString that takes a missing value for the
\* empty string (githubNick ?? ''); C16 fails for it.
JSToStringNullish(v) ==
  CASE v.t = "string" -> [threw |-> FALSE, str |-> v.s]
    [] v.t = "undefined" -> [threw |-> FALSE, str |-> <<>>]
    [] v.t = "number" -> [threw |-> FALSE, str |-> DecimalDigits(v.n)]
    [] v.t = "symbol" -> [threw |-> TRUE, str |-> <<>>]

JSToString(v) ==
  CASE v.t = "string" -> [threw |-> FALSE, str |-> v.s]
    [] v.t = "undefined" ->
         [threw |-> FALSE, str |-> <<"u", "n", "d", "e", "f", "i", "n", "e", "d">>]
    [] v.t = "number" -> [threw |-> FALSE, str |-> DecimalDigits(v.n)]
    [] v.t = "symbol" -> [threw |-> TRUE, str |-> <<>>]

\* The literal text of the template on line 8, before its substitution.
UrlPrefix ==
  <<"h", "t", "t", "p", "s", ":", "/", "/",
    "g", "i", "t", "h", "u", "b", ".", "c", "o", "m", "/">>

\* encodeURIComponent on the characters the inputs use.
RECURSIVE PercentEncode(_)
PercentEncode(s) ==
  IF s = <<>> THEN <<>>
  ELSE LET c == Head(s)
           e == CASE c = "/" -> <<"%", "2", "F">>
                  [] c = "?" -> <<"%", "3", "F">>
                  [] c = "#" -> <<"%", "2", "3">>
                  [] c = " " -> <<"%", "2", "0">>
                  [] OTHER -> <<c>>
       IN  e \o PercentEncode(Tail(s))

\* A faulty variant of HrefTemplate that percent-encodes the substitution
\* as a path segment; C1 fails for it.
HrefTemplateEncoded(githubNick) ==
  LET sub == JSToString(githubNick)
  IN  IF sub.threw THEN [threw |-> TRUE, str |-> <<>>]
      ELSE [threw |-> FALSE, str |-> UrlPrefix \o PercentEncode(sub.str)]

\* A faulty variant of HrefTemplate that rejects an identifier which is
\* empty or holds a character that cannot be part of a user name; C2 fails
\* for it.
HrefTemplateValidating(githubNick) ==
  LET sub == JSToString(githubNick)
      bad == {"/", "?", "#", " "}
  IN  IF sub.threw \/ sub.str = <<>>
         \/ \E k \in DOMAIN sub.str : sub.str[k] \in bad
      THEN [threw |-> TRUE, str |-> <<>>]
      ELSE [threw |-> FALSE, str |-> UrlPrefix \o sub.str]

\* A faulty variant of HrefTemplate that puts a default name in the place
\* of an identifier that is empty or holds a character no user name has;
\* C13 fails for it.
HrefTemplateDefaulting(githubNick) ==
  LET sub == JSToString(githubNick)
      bad == {"/", "?", "#", " ", "%", ".", "@", ":"}
  IN  IF sub.threw THEN [threw |-> TRUE, str |-> <<>>]
      ELSE IF sub.str = <<>> \/ \E k \in DOMAIN sub.str : sub.str[k] \in bad
      THEN [threw |-> FALSE, str |-> UrlPrefix \o <<"g", "h", "o", "s", "t">>]
      ELSE [threw |-> FALSE, str |-> UrlPrefix \o sub.str]

\* A faulty variant of HrefTemplate that resolves the identifier against
\* the base URL as a reference: one that starts with "//" replaces the
\* host; C14 fails for it.
HrefTemplateResolved(githubNick) ==
  LET sub == JSToString(githubNick)
  IN  IF sub.threw THEN [threw |-> TRUE, str |-> <<>>]
      ELSE IF Len(sub.str) >= 2 /\ sub.str[1] = "/" /\ sub.str[2] = "/"
      THEN [threw |-> FALSE, str |-> <<"h", "t", "t", "p", "s", ":">> \o sub.str]
      ELSE [threw |-> FALSE, str |-> UrlPrefix \o sub.str]

\* String.prototype.trim on the inputs' one whitespace character.
RECURSIVE TrimStart(_)
TrimStart(s) ==
  IF s # <<>> /\ Head(s) = " " THEN TrimStart(Tail(s)) ELSE s

RECURSIVE TrimEnd(_)
TrimEnd(s) ==
  IF s # <<>> /\ s[Len(s)] = " " THEN TrimEnd(SubSeq(s, 1, Len(s) - 1)) ELSE s

\* A faulty variant of HrefTemplate that trims the identifier; C15 fails
\* for it.
HrefTemplateTrimmed(githubNick) ==
  LET sub == JSToString(githubNick)
  IN  IF sub.threw THEN [threw |-> TRUE, str |-> <<>>]
      ELSE [threw |-> FALSE, str |-> UrlPrefix \o TrimEnd(TrimStart(sub.str))]

\* `https://github.com/${githubNick}`: the literal text followed by
\* ToString of the substitution; a throwing ToString ends the evaluation.
HrefTemplate(githubNick) ==
  LET sub == JSToString(githubNick)
  IN  IF sub.threw THEN [threw |-> TRUE, str |-> <<>>]
      ELSE [threw |-> FALSE, str |-> UrlPrefix \o sub.str]

(***************************************************************************)
(* Element trees.  A JSX expression <T a=v>c</T> evaluates to a new        *)
(* element of type T with the props a |-> v and the children c.            *)
(***************************************************************************)
Element(type, props, children) ==
  [type |-> type, props |-> props, children |-> children]

\* The two path elements of the icon (lines 17-20 and 21-24).
IconPath1 ==
  Element("path",
          [d |-> "M10.4594 0.287109C4.68357 0.287109 0 4.96986 0 10.7465C0 15.3678 2.99693 19.2884 7.1528 20.6715C7.6755 20.7683 7.86745 20.4446 7.86745 20.1683C7.86745 19.9189 7.85769 19.0949 7.85326 18.2209C4.94337 18.8537 4.32936 16.9869 4.32936 16.9869C3.85358 15.7779 3.16805 15.4565 3.16805 15.4565C2.21911 14.8073 3.23958 14.8206 3.23958 14.8206C4.28991 14.8944 4.84296 15.8985 4.84296 15.8985C5.77582 17.4975 7.28979 17.0352 7.88665 16.768C7.98049 16.0919 8.25161 15.6306 8.55069 15.3694C6.22757 15.1048 3.78533 14.208 3.78533 10.2003C3.78533 9.05838 4.19393 8.12528 4.86306 7.39282C4.75445 7.12934 4.39647 6.06555 4.96437 4.62484C4.96437 4.62484 5.84268 4.34372 7.84145 5.69699C8.67571 5.46517 9.5705 5.34901 10.4594 5.34507C11.3483 5.34901 12.2437 5.46517 13.0796 5.69699C15.076 4.34372 15.9531 4.62484 15.9531 4.62484C16.5224 6.06555 16.1643 7.12934 16.0556 7.39282C16.7263 8.12528 17.1321 9.0583 17.1321 10.2003C17.1321 14.2175 14.6852 15.1021 12.3562 15.361C12.7313 15.6856 13.0656 16.3222 13.0656 17.2979C13.0656 18.6974 13.0535 19.8238 13.0535 20.1683C13.0535 20.4466 13.2417 20.7728 13.772 20.6701C17.9256 19.2855 20.9187 15.3663 20.9187 10.7465C20.9187 4.96986 16.2358 0.287109 10.4594 0.287109Z",
           fill |-> "#452393"],
          <<>>)

\* A faulty variant of IconPath2 that is outlined instead of filled; C10
\* fails for it.
IconPath2Stroked ==
  Element("path",
          [d |-> IconPath1.props.d, fill |-> "none", stroke |-> "#452393"],
          <<>>)

IconPath2 ==
  Element("path",
          [d |-> "M3.91784 15.1866C3.89487 15.2386 3.813 15.2542 3.7386 15.2186C3.66272 15.1844 3.62006 15.1136 3.64467 15.0614C3.66723 15.0079 3.7491 14.993 3.82481 15.0289C3.90086 15.0629 3.94417 15.1345 3.91784 15.1866ZM4.43234 15.6457C4.38246 15.692 4.28493 15.6705 4.21873 15.5974C4.15031 15.5244 4.13752 15.427 4.18813 15.38C4.23956 15.3338 4.33415 15.3554 4.40272 15.4284C4.47114 15.5021 4.48443 15.599 4.43225 15.6458L4.43234 15.6457ZM4.78532 16.233C4.72117 16.2776 4.61633 16.2358 4.55161 16.1428C4.48754 16.0499 4.48754 15.9383 4.553 15.8936C4.61797 15.8489 4.72117 15.8891 4.78679 15.9814C4.85078 16.0759 4.85078 16.1875 4.78523 16.2331L4.78532 16.233ZM5.38218 16.9133C5.32484 16.9765 5.20277 16.9596 5.11336 16.8733C5.02198 16.789 4.99647 16.6693 5.05397 16.606C5.11197 16.5427 5.23477 16.5605 5.32484 16.6461C5.41565 16.7302 5.44337 16.8508 5.38226 16.9133H5.38218ZM6.1536 17.143C6.12842 17.2249 6.01078 17.2621 5.89233 17.2273C5.77404 17.1915 5.6966 17.0955 5.72047 17.0127C5.74508 16.9303 5.86321 16.8915 5.98256 16.9287C6.10069 16.9644 6.17829 17.0597 6.15368 17.143H6.1536ZM7.03166 17.2404C7.03461 17.3267 6.93413 17.3982 6.80977 17.3998C6.68467 17.4025 6.58352 17.3327 6.58221 17.2478C6.58221 17.1607 6.6804 17.0899 6.80542 17.0878C6.92978 17.0853 7.03166 17.1547 7.03166 17.2404ZM7.89414 17.2073C7.90907 17.2915 7.82261 17.3779 7.69915 17.4009C7.57774 17.4231 7.46536 17.3711 7.44986 17.2877C7.43476 17.2014 7.52286 17.115 7.64402 17.0926C7.76773 17.0711 7.87839 17.1218 7.89414 17.2073Z",
           fill |-> "#452393"],
          <<>>)

\* A faulty variant of IconSvg drawn on a 24 by 24 canvas; C3 fails for it.
IconSvg24 ==
  Element("svg",
          [xmlns |-> "http://www.w3.org/2000/svg",
           width |-> "24",
           height |-> "24",
           viewBox |-> "0 0 24 24",
           fill |-> "none"],
          <<IconPath1, IconPath2>>)

\* A faulty variant of IconSvg that sets the colour on the svg element
\* and leaves the paths to inherit it; C17 fails for it.
IconSvgFilled ==
  Element("svg",
          [xmlns |-> "http://www.w3.org/2000/svg",
           width |-> "21",
           height |-> "21",
           viewBox |-> "0 0 21 21",
           fill |-> "#452393"],
          <<Element("path", [d |-> IconPath1.props.d], <<>>),
            Element("path", [d |-> IconPath2.props.d], <<>>)>>)

\* The svg element (lines 10-25).
IconSvg ==
  Element("svg",
          [xmlns |-> "http://www.w3.org/2000/svg",
           width |-> "21",
           height |-> "21",
           viewBox |-> "0 0 21 21",
           fill |-> "none"],
          <<IconPath1, IconPath2>>)

\* The anchor element (lines 9-26): no props of its own, one child.
AnchorElement == Element("a", <<>>, <<IconSvg>>)

\* What stands in a call's record for the node when the call threw.
NoNode == Element("none", <<>>, <<>>)

(***************************************************************************)
(* The component.  A props object is [githubNick |-> value, rest |-> the   *)
(* other properties it carries]; the parameter pattern { githubNick }      *)
(* reads the one property and nothing else.                                *)
(***************************************************************************)
\* A faulty variant of TeamMemberGithub that also reads the other
\* properties and passes them on to the link; C5 fails for it.
TeamMemberGithubStyled(props) ==
  LET href == HrefTemplate(props.githubNick)
  IN  IF href.threw
      THEN [threw |-> TRUE, node |-> NoNode]
      ELSE [threw |-> FALSE,
            node |-> Element("Link", [href |-> href.str, rest |-> props.rest],
                             <<AnchorElement>>)]

\* A faulty variant of TeamMemberGithub that returns the link and the icon
\* side by side instead of the icon inside the link; C9 fails for it.
TeamMemberGithubIconOutside(props) ==
  LET href == HrefTemplate(props.githubNick)
  IN  IF href.threw
      THEN [threw |-> TRUE, node |-> NoNode]
      ELSE [threw |-> FALSE,
            node |-> Element("Fragment", <<>>,
                             <<Element("Link", [href |-> href.str],
                                       <<Element("a", <<>>, <<>>)>>),
                               IconSvg>>)]

\* A faulty variant of TeamMemberGithub that renders nothing when the
\* identifier is empty (githubNick && <Link ...>); C12 fails for it.
TeamMemberGithubSkipEmpty(props) ==
  LET href == HrefTemplate(props.githubNick)
  IN  IF href.threw
      THEN [threw |-> TRUE, node |-> NoNode]
      ELSE IF JSToString(props.githubNick).str = <<>>
      THEN [threw |-> FALSE, node |-> NoNode]
      ELSE [threw |-> FALSE,
            node |-> Element("Link", [href |-> href.str], <<AnchorElement>>)]

\* A faulty variant of TeamMemberGithub that repeats the href on the
\* inner anchor; C18 fails for it.
TeamMemberGithubHrefOnAnchor(props) ==
  LET href == HrefTemplate(props.githubNick)
  IN  IF href.threw
      THEN [threw |-> TRUE, node |-> NoNode]
      ELSE [threw |-> FALSE,
            node |-> Element("Link", [href |-> href.str],
                             <<Element("a", [href |-> href.str],
                                       <<IconSvg>>)>>)]

TeamMemberGithub(props) ==
  LET githubNick == props.githubNick
      href == HrefTemplate(githubNick)
  IN  IF href.threw
      THEN [threw |-> TRUE, node |-> NoNode]
      ELSE [threw |-> FALSE,
            node |-> Element("Link", [href |-> href.str], <<AnchorElement>>)]

(***************************************************************************)
(* The world outside a call: what the host shows (its theme), the effects  *)
(* performed so far (log lines, requests, navigations) and the mutable     *)
(* bindings of the component's module scope.  The module holds three       *)
(* imports and one const, so it has no mutable binding.                    *)
(***************************************************************************)
FreshWorld == [theme |-> "light", effects |-> <<>>, module |-> <<>>]

Themes == {"light", "dark"}

\* A faulty variant of Invoke that numbers the trees it returns with a
\* counter kept in the module; C4 fails for it.
InvokeKeyed(w, props) ==
  LET r == TeamMemberGithub(props)
      key == DecimalDigits(Len(w.module))
  IN  [result |-> IF r.threw THEN r
                  ELSE [r EXCEPT !.node.props =
                          [href |-> r.node.props.href, key |-> key]],
       world |-> [w EXCEPT !.module = Append(@, key)]]

\* A faulty variant of Invoke that keeps the first result in the module
\* and returns it to every later call; C7 fails for it.
InvokeMemo(w, props) ==
  IF w.module = <<>>
  THEN LET r == TeamMemberGithub(props)
       IN  [result |-> r, world |-> [w EXCEPT !.module = <<r>>]]
  ELSE [result |-> w.module[1], world |-> w]

\* A faulty variant of Invoke that logs the identifier it was given; C8
\* fails for it.
InvokeLogging(w, props) ==
  [result |-> TeamMemberGithub(props),
   world |-> [w EXCEPT !.effects = Append(@, <<"log", props.githubNick>>)]]

\* One invocation in the world w: the function body is a single expression
\* that reads its parameter only, so the world comes back as it was.
Invoke(w, props) == [result |-> TeamMemberGithub(props), world |-> w]

\* A faulty variant of Returned in which every call fills in and returns
\* one shared tree, so that the trees handed out before change with it; C6
\* fails for it.
ReturnedShared(cs, entry) ==
  [i \in 1..(Len(cs) + 1) |->
     IF i <= Len(cs) THEN [cs[i] EXCEPT !.result = entry.result] ELSE entry]

\* A faulty variant of Returned in which the call suspends and hands
\* nothing back; C11 fails for it.
ReturnedSuspended(cs, entry) == cs

\* A call hands a newly built tree to its caller; the trees handed out
\* before are other objects and stay as they are.
Returned(cs, entry) == Append(cs, entry)

(***************************************************************************)
(* The inputs.                                                             *)
(***************************************************************************)
Octocat == <<"o", "c", "t", "o", "c", "a", "t">>
SlashId == <<"a", "/", "b">>
OddId == <<" ", "x", "?", "y", "#", " ">>
HostId == <<"/", "/", "a", ".", "b">>
SchemeId == <<"a", ":", "/", "/", "b">>

Identifiers == {<<>>, Octocat, SlashId}

NoRest == {}
ColorRest == {[name |-> "color", value |-> "red"]}
StyleRest == {[name |-> "size", value |-> "48"],
              [name |-> "className", value |-> "big"]}

\* The props objects a caller passes: every identifier on its own, two of
\* them again with further properties, and the values a caller that
\* ignores the declared type could pass.
PropsObjects ==
  {[githubNick |-> JSString(s), rest |-> NoRest] : s \in Identifiers}
  \cup {[githubNick |-> JSString(Octocat), rest |-> ColorRest],
        [githubNick |-> JSString(SlashId), rest |-> StyleRest]}
  \cup {[githubNick |-> v, rest |-> NoRest] :
          v \in {JSUndefined, JSNumber(42), JSSymbol}}

(***************************************************************************)
(* The state machine.                                                      *)
(***************************************************************************)
VARIABLES
  calls,   \* the invocations so far: [props, env, result] each
  world    \* the world outside the calls

vars == <<calls, world>>

Init ==
  /\ calls = <<>>
  /\ world = FreshWorld

\* The caller invokes the component with the props p.
Render(p) ==
  /\ Len(calls) < MaxCalls
  /\ LET r == Invoke(world, p)
     IN  /\ calls' = Returned(calls, [props |-> p, env |-> world,
                                      result |-> r.result])
         /\ world' = r.world

\* The host changes what it shows between two invocations.
HostChange ==
  /\ \E t \in Themes \ {world.theme} : world' = [world EXCEPT !.theme = t]
  /\ UNCHANGED calls

Next ==
  \/ \E p \in PropsObjects : Render(p)
  \/ HostChange

Spec == Init /\ [][Next]_vars

(***************************************************************************)
(* The component as a function of a string: one call, for any identifier   *)
(* of at most MaxIdLen characters over an alphabet with a letter or two    *)
(* and the characters that matter in a URL, or one of the longer ones.     *)
(***************************************************************************)
Alphabet == {"a", "b", "/", "?", "#", " ", "%", ".", "@", ":"}

StringsUpTo(n) == UNION {[1..k -> Alphabet] : k \in 0..n}

StringInputs ==
  StringsUpTo(MaxIdLen) \cup Identifiers \cup {OddId, HostId, SchemeId}

RenderString(s) ==
  /\ calls = <<>>
  /\ Render([githubNick |-> JSString(s), rest |-> NoRest])

StringNext == \E s \in StringInputs : RenderString(s)

StringSpec == Init /\ [][StringNext]_vars

(***************************************************************************)
(* One composition pass.  The composition layer holds a list of            *)
(* team-member records, each a props object with a string githubNick, and  *)
(* invokes the component once per record, in the order of the list.  The   *)
(* list is part of the world outside the calls.  A call is synchronous, so *)
(* the pass goes on as long as a record is left.                           *)
(***************************************************************************)
StringProps == {p \in PropsObjects : p.githubNick.t = "string"}

RecordLists == UNION {[1..n -> StringProps] : n \in 0..MaxCalls}

PassWorld(rs) ==
  [theme |-> "light", effects |-> <<>>, module |-> <<>>, records |-> rs]

PassInit ==
  /\ calls = <<>>
  /\ \E rs \in RecordLists : world = PassWorld(rs)

\* The next record of the list is rendered.
PassRender ==
  /\ Len(calls) < Len(world.records)
  /\ Render(world.records[Len(calls) + 1])

PassNext == PassRender

PassSpec == PassInit /\ [][PassNext]_vars

\* The pass is a synchronous loop: while a record is left, the next call
\* is made.
LivePassSpec == PassSpec /\ WF_vars(PassNext)

(***************************************************************************)
(* Reading the history.                                                    *)
(***************************************************************************)
IsString(i) == calls[i].props.githubNick.t = "string"
Identifier(i) == calls[i].props.githubNick.s
Threw(i) == calls[i].result.threw
Node(i) == calls[i].result.node

\* Every node below n.
RECURSIVE Descendants(_)
Descendants(n) ==
  UNION {{n.children[k]} \cup Descendants(n.children[k]) :
           k \in DOMAIN n.children}

\* The svg elements of the tree call i returned.
Icons(i) == {n \in Descendants(Node(i)) : n.type = "svg"}

\* The colours an svg's shapes are painted with: a shape's own fill, or
\* the fill it inherits from the svg element when it has none.
PaintedFills(svg) ==
  {IF "fill" \in DOMAIN svg.children[k].props
     THEN svg.children[k].props.fill
     ELSE svg.props.fill : k \in DOMAIN svg.children}

\* The targets of the spec's scenarios, spelled out.
GithubRootUrl ==
  <<"h", "t", "t", "p", "s", ":", "/", "/",
    "g", "i", "t", "h", "u", "b", ".", "c", "o", "m", "/">>
GithubOctocatUrl ==
  <<"h", "t", "t", "p", "s", ":", "/", "/",
    "g", "i", "t", "h", "u", "b", ".", "c", "o", "m", "/",
    "o", "c", "t", "o", "c", "a", "t">>
GithubSlashUrl ==
  <<"h", "t", "t", "p", "s", ":", "/", "/",
    "g", "i", "t", "h", "u", "b", ".", "c", "o", "m", "/", "a", "/", "b">>

(***************************************************************************)
(* C1.  For every string s, the empty one and those with '/', '?', '#' or  *)
(* whitespace included, the link returned for the identifier s has the     *)
(* target "https://github.com/" followed by s, character for character:    *)
(* nothing is escaped, encoded or trimmed ("octocat" gives                 *)
(* "https://github.com/octocat", "a/b" gives "https://github.com/a/b").    *)
(***************************************************************************)
C1_TargetIsPrefixThenIdentifier ==
  \A i \in DOMAIN calls :
    IsString(i) =>
      /\ ~Threw(i)
      /\ "href" \in DOMAIN Node(i).props
      /\ LET href == Node(i).props.href
             s == Identifier(i)
         IN  /\ href = GithubRootUrl \o s
             /\ Len(href) = Len(GithubRootUrl) + Len(s)
             /\ \A k \in 1..Len(s) : href[Len(GithubRootUrl) + k] = s[k]
             /\ (s = Octocat => href = GithubOctocatUrl)
             /\ (s = SlashId => href = GithubSlashUrl)

\* Reached: a call for "a/b" returned the target "https://github.com/a/b".
C1_Witness ==
  \E i \in DOMAIN calls :
    /\ IsString(i) /\ Identifier(i) = SlashId /\ ~Threw(i)
    /\ Node(i).props.href = GithubSlashUrl

(***************************************************************************)
(* C2.  The renderer is total on strings: for every string identifier, the *)
(* empty one and those that make the URL meaningless included, a call      *)
(* returns a link node and does not throw; the empty identifier gives the  *)
(* target "https://github.com/".                                           *)
(***************************************************************************)
C2_TotalOnStrings ==
  \A i \in DOMAIN calls :
    IsString(i) =>
      /\ ~Threw(i)
      /\ Node(i).type = "Link"
      /\ "href" \in DOMAIN Node(i).props
      /\ (Identifier(i) = <<>> => Node(i).props.href = GithubRootUrl)

\* Reached: a call for the empty identifier returned a link to
\* "https://github.com/".
C2_Witness ==
  \E i \in DOMAIN calls :
    /\ IsString(i) /\ Identifier(i) = <<>> /\ ~Threw(i)
    /\ Node(i).type = "Link" /\ Node(i).props.href = GithubRootUrl

(***************************************************************************)
(* C3.  The icon is the same for every invocation, whatever the            *)
(* identifier: every returned tree holds one svg with width 21, height 21  *)
(* and viewBox "0 0 21 21", whose shapes are painted #452393.              *)
(***************************************************************************)
C3_IconIsFixed ==
  /\ \A i \in DOMAIN calls :
       ~Threw(i) =>
         /\ Cardinality(Icons(i)) = 1
         /\ \A svg \in Icons(i) :
              /\ svg.props.width = "21"
              /\ svg.props.height = "21"
              /\ svg.props.viewBox = "0 0 21 21"
              /\ PaintedFills(svg) = {"#452393"}
  /\ \A i, j \in DOMAIN calls :
       (~Threw(i) /\ ~Threw(j)) => Icons(i) = Icons(j)

\* Reached: two calls with different identifiers returned trees with the
\* same 21 by 21 icon.
C3_Witness ==
  \E i, j \in DOMAIN calls :
    /\ ~Threw(i) /\ ~Threw(j)
    /\ calls[i].props.githubNick # calls[j].props.githubNick
    /\ Icons(i) = Icons(j)
    /\ \E svg \in Icons(i) : svg.props.width = "21"

(***************************************************************************)
(* C4.  Rendering is deterministic: any two invocations with the same      *)
(* configuration, wherever they stand in the sequence of invocations,      *)
(* return structurally identical results (same target, same icon tree).    *)
(***************************************************************************)
C4_SameConfigurationSameOutput ==
  \A i, j \in DOMAIN calls :
    calls[i].props = calls[j].props => calls[i].result = calls[j].result

\* Reached: the same configuration rendered first and third, with another
\* configuration rendered in between, and the two results are equal nodes.
C4_Witness ==
  /\ Len(calls) >= 3
  /\ calls[1].props = calls[3].props
  /\ calls[2].props # calls[1].props
  /\ ~Threw(1)
  /\ Node(1) = Node(3)

(***************************************************************************)
(* C5.  The result depends on the identifier only: two invocations that    *)
(* agree on the identifier return the same target and the same tree, even  *)
(* when they differ in the other properties passed or in the state of the  *)
(* world they ran in.                                                      *)
(***************************************************************************)
C5_OnlyTheIdentifierCounts ==
  \A i, j \in DOMAIN calls :
    calls[i].props.githubNick = calls[j].props.githubNick =>
      calls[i].result = calls[j].result

\* Reached: two calls with the same identifier, different further
\* properties and different worlds, and equal results.
C5_Witness ==
  \E i, j \in DOMAIN calls :
    /\ calls[i].props.githubNick = calls[j].props.githubNick
    /\ calls[i].props.rest # calls[j].props.rest
    /\ calls[i].env # calls[j].env
    /\ ~Threw(i)
    /\ calls[i].result = calls[j].result

(***************************************************************************)
(* C6.  An invocation leaves every node returned before as it was: in      *)
(* every step, each record of the history keeps its props and its result.  *)
(***************************************************************************)
C6_EarlierOutputsUnchanged ==
  [][\A i \in DOMAIN calls : i \in DOMAIN calls' /\ calls'[i] = calls[i]]_vars

\* Reached: three calls were made, and the first one's node still has the
\* target of its own identifier, which is not the last call's.
C6_Witness ==
  /\ Len(calls) >= 3
  /\ IsString(1) /\ IsString(3)
  /\ Identifier(1) # Identifier(3)
  /\ Node(1).props.href = GithubRootUrl \o Identifier(1)
  /\ Node(3).props.href = GithubRootUrl \o Identifier(3)

(***************************************************************************)
(* C7.  Invocations are independent of their order: wherever a             *)
(* configuration stands in the sequence of invocations, and whatever was   *)
(* rendered before it, its result is the one it gets when it is rendered   *)
(* alone, first, in a fresh world.                                         *)
(***************************************************************************)
C7_ResultAsWhenRenderedAlone ==
  \A i \in DOMAIN calls :
    calls[i].result = Invoke(FreshWorld, calls[i].props).result

\* Reached: three different configurations were rendered, "octocat" last.
C7_Witness ==
  /\ Len(calls) >= 3
  /\ calls[1].props # calls[2].props
  /\ calls[2].props # calls[3].props
  /\ calls[1].props # calls[3].props
  /\ IsString(3) /\ Identifier(3) = Octocat
  /\ Node(3).props.href = GithubOctocatUrl

(***************************************************************************)
(* C8.  An invocation has no side effect and keeps no state: a step that   *)
(* adds a call to the history leaves the world (what the host shows, the   *)
(* effects performed, the module's bindings) exactly as it was.            *)
(***************************************************************************)
C8_RenderLeavesWorldAlone ==
  [][Len(calls') > Len(calls) => world' = world]_vars

\* Reached: two calls were made in different worlds, and no effect has
\* been performed and no binding written.
C8_Witness ==
  /\ Len(calls) >= 2
  /\ calls[1].env # calls[2].env
  /\ world.effects = <<>>
  /\ world.module = <<>>

(***************************************************************************)
(* C9.  The node returned is the hyperlink node: it is the Link element,   *)
(* it carries the href "https://github.com/" followed by the identifier,   *)
(* and the icon is nested inside it (the only svg of the output is one of  *)
(* its descendants).                                                       *)
(***************************************************************************)
C9_LinkCarriesHrefAndIcon ==
  \A i \in DOMAIN calls :
    IsString(i) =>
      /\ ~Threw(i)
      /\ Node(i).type = "Link"
      /\ DOMAIN Node(i).props = {"href"}
      /\ Node(i).props.href = GithubRootUrl \o Identifier(i)
      /\ Icons(i) = {IconSvg}
      /\ Len(Node(i).children) = 1

\* Reached: a call for "octocat" returned a Link whose href is
\* "https://github.com/octocat" and below which the icon stands.
C9_Witness ==
  \E i \in DOMAIN calls :
    /\ IsString(i) /\ Identifier(i) = Octocat /\ ~Threw(i)
    /\ Node(i).type = "Link"
    /\ Node(i).props.href = GithubOctocatUrl
    /\ IconSvg \in Descendants(Node(i))

(***************************************************************************)
(* C10.  The icon of every output is made of exactly two path shapes, and  *)
(* each of the two has the fill #452393.                                   *)
(***************************************************************************)
C10_TwoPathsFilled ==
  \A i \in DOMAIN calls :
    ~Threw(i) =>
      /\ Icons(i) # {}
      /\ \A svg \in Icons(i) :
           /\ Len(svg.children) = 2
           /\ svg.children[1] # svg.children[2]
           /\ \A k \in 1..2 :
                /\ svg.children[k].type = "path"
                /\ "fill" \in DOMAIN svg.children[k].props
                /\ svg.children[k].props.fill = "#452393"
      /\ Cardinality({n \in Descendants(Node(i)) : n.type = "path"}) = 2

\* Reached: a returned tree whose svg has two different path children,
\* both filled #452393.
C10_Witness ==
  \E i \in DOMAIN calls :
    /\ ~Threw(i)
    /\ \E svg \in Icons(i) :
         /\ Len(svg.children) = 2
         /\ svg.children[1].type = "path" /\ svg.children[2].type = "path"
         /\ svg.children[1].props.d # svg.children[2].props.d
         /\ svg.children[1].props.fill = "#452393"
         /\ svg.children[2].props.fill = "#452393"

(***************************************************************************)
(* C11.  Every invocation completes: a call is one synchronous step that   *)
(* adds one finished call to the history, and in a pass over a list of     *)
(* records every record's call eventually has returned its link; no call   *)
(* blocks the ones after it.                                               *)
(***************************************************************************)
C11_EveryInvocationCompletes ==
  /\ [][Len(calls') = Len(calls) + 1]_vars
  /\ \A i \in 1..MaxCalls :
       (i <= Len(world.records)) ~>
         (i \in DOMAIN calls /\ ~Threw(i) /\ Node(i).type = "Link")

\* Reached: a pass over at least two records has made all its calls, and
\* the last one returned a link.
C11_Witness ==
  /\ "records" \in DOMAIN world
  /\ Len(world.records) >= 2
  /\ Len(calls) = Len(world.records)
  /\ ~Threw(Len(calls))
  /\ Node(Len(calls)).type = "Link"

(***************************************************************************)
(* C12.  Each invocation produces exactly one subtree: in a pass over a    *)
(* list of n records, the i-th call is the i-th record's and returns one   *)
(* Link whose target is "https://github.com/" followed by that record's    *)
(* identifier, and when the pass is over exactly n subtrees have been      *)
(* produced: no record is skipped, merged or duplicated.                   *)
(***************************************************************************)
C12_OneSubtreePerRecord ==
  LET rs == world.records
  IN  /\ Len(calls) <= Len(rs)
      /\ \A i \in DOMAIN calls :
           /\ calls[i].props = rs[i]
           /\ ~Threw(i)
           /\ Node(i).type = "Link"
           /\ Node(i).props.href = GithubRootUrl \o rs[i].githubNick.s
      /\ (~ENABLED PassNext) =>
           Cardinality({i \in DOMAIN calls : Node(i).type = "Link"}) = Len(rs)

\* Reached: a finished pass over three records, the first and the third
\* the same, the second with the empty identifier, with three links.
C12_Witness ==
  /\ "records" \in DOMAIN world
  /\ Len(world.records) = 3
  /\ Len(calls) = 3
  /\ world.records[1] = world.records[3]
  /\ world.records[1].githubNick.s = Octocat
  /\ world.records[2].githubNick.s = <<>>
  /\ Node(1).props.href = GithubOctocatUrl
  /\ Node(2).props.href = GithubRootUrl
  /\ Node(3).props.href = GithubOctocatUrl

(***************************************************************************)
(* C13.  The renderer validates nothing: every string is accepted as an    *)
(* identifier, none makes the call throw, and the target ends with the     *)
(* identifier as it was given: nothing is filtered out of it or put in its *)
(* place.                                                                  *)
(***************************************************************************)
C13_NoValidation ==
  /\ calls = <<>> => \A s \in StringInputs : ENABLED RenderString(s)
  /\ \A i \in DOMAIN calls :
       IsString(i) =>
         /\ ~Threw(i)
         /\ Node(i).type = "Link"
         /\ LET href == Node(i).props.href
                s == Identifier(i)
            IN  /\ Len(href) >= Len(s)
                /\ SubSeq(href, Len(href) - Len(s) + 1, Len(href)) = s

\* Reached: the identifier "?#" was rendered, and the target returned
\* ends with "?#".
C13_Witness ==
  \E i \in DOMAIN calls :
    /\ IsString(i) /\ Identifier(i) = <<"?", "#">> /\ ~Threw(i)
    /\ Node(i).type = "Link"
    /\ Node(i).props.href = GithubRootUrl \o <<"?", "#">>

(***************************************************************************)
(* C14.  For every identifier the first 19 characters of the target are    *)
(* "https://github.com/": no identifier, one that starts with "/", "//",   *)
(* ".." or "@" or holds a scheme included, changes or removes the scheme   *)
(* and host at the head of the target string.                              *)
(***************************************************************************)
C14_PrefixIsFixed ==
  \A i \in DOMAIN calls :
    IsString(i) =>
      /\ ~Threw(i)
      /\ Len(GithubRootUrl) = 19
      /\ Len(Node(i).props.href) >= 19
      /\ \A k \in 1..19 : Node(i).props.href[k] = GithubRootUrl[k]

\* Reached: the identifier "//a.b" was rendered and its target is
\* "https://github.com///a.b".
C14_Witness ==
  \E i \in DOMAIN calls :
    /\ IsString(i) /\ Identifier(i) = HostId /\ ~Threw(i)
    /\ SubSeq(Node(i).props.href, 1, 19) = GithubRootUrl
    /\ SubSeq(Node(i).props.href, 20, 24) = HostId

(***************************************************************************)
(* C15.  The mapping from identifier to target can be inverted: the target *)
(* without its first 19 characters is the identifier, its length is 19     *)
(* plus the identifier's, and no other identifier gives the same target.   *)
(***************************************************************************)
TargetOf(s) ==
  TeamMemberGithub([githubNick |-> JSString(s), rest |-> NoRest]).node.props.href

C15_TargetDeterminesIdentifier ==
  \A i \in DOMAIN calls :
    IsString(i) =>
      /\ ~Threw(i)
      /\ LET href == Node(i).props.href
             s == Identifier(i)
         IN  /\ Len(href) = 19 + Len(s)
             /\ SubSeq(href, 20, Len(href)) = s
             /\ \A t \in StringsUpTo(2) : t # s => TargetOf(t) # href

\* Reached: the identifier "a " was rendered; its target has 21 characters
\* and is not the target of "a".
C15_Witness ==
  \E i \in DOMAIN calls :
    /\ IsString(i) /\ Identifier(i) = <<"a", " ">> /\ ~Threw(i)
    /\ Len(Node(i).props.href) = 21
    /\ Node(i).props.href # TargetOf(<<"a">>)

(***************************************************************************)
(* C16.  A githubNick that is absent or not a string.                      *)
(***************************************************************************)
GithubUndefinedUrl ==
  <<"h", "t", "t", "p", "s", ":", "/", "/",
    "g", "i", "t", "h", "u", "b", ".", "c", "o", "m", "/",
    "u", "n", "d", "e", "f", "i", "n", "e", "d">>
GithubFortyTwoUrl ==
  <<"h", "t", "t", "p", "s", ":", "/", "/",
    "g", "i", "t", "h", "u", "b", ".", "c", "o", "m", "/", "4", "2">>

\* C16 as stated: when githubNick is absent (undefined) or is not a
\* string, the call still returns a link and does not fail, the value
\* being coerced to its string form; an absent one gives
\* "https://github.com/undefined".  It fails for a Symbol.
C16_AsStated ==
  \A i \in DOMAIN calls :
    ~IsString(i) =>
      /\ ~Threw(i)
      /\ Node(i).type = "Link"
      /\ (calls[i].props.githubNick = JSUndefined =>
            Node(i).props.href = GithubUndefinedUrl)

\* C16 as amended: when githubNick is absent (undefined) or is a number,
\* the call returns a link whose target is "https://github.com/" followed
\* by the value's string form, so an absent one gives
\* "https://github.com/undefined" and not "https://github.com/"; when it
\* is a Symbol the template literal throws and no link is returned.
C16_CoercedUnlessSymbol ==
  \A i \in DOMAIN calls :
    ~IsString(i) =>
      IF calls[i].props.githubNick.t = "symbol"
      THEN Threw(i)
      ELSE /\ ~Threw(i)
           /\ Node(i).type = "Link"
           /\ (calls[i].props.githubNick = JSUndefined =>
                 /\ Node(i).props.href = GithubUndefinedUrl
                 /\ Node(i).props.href # GithubRootUrl)
           /\ (calls[i].props.githubNick = JSNumber(42) =>
                 Node(i).props.href = GithubFortyTwoUrl)

\* Reached: a call without githubNick returned the target
\* "https://github.com/undefined", and a call with a Symbol threw.
C16_Witness ==
  \E i, j \in DOMAIN calls :
    /\ calls[i].props.githubNick = JSUndefined
    /\ ~Threw(i)
    /\ Node(i).props.href = GithubUndefinedUrl
    /\ calls[j].props.githubNick = JSSymbol
    /\ Threw(j)

(***************************************************************************)
(* C17.  In every output the fill attribute of the svg element is "none",  *)
(* never "#452393"; the nodes of the tree that carry the fill "#452393"    *)
(* are the two path children of the svg and no other.                      *)
(***************************************************************************)
C17_SvgFillNonePathsColoured ==
  \A i \in DOMAIN calls :
    ~Threw(i) =>
      /\ Icons(i) # {}
      /\ \A svg \in Icons(i) :
           /\ "fill" \in DOMAIN svg.props
           /\ svg.props.fill = "none"
           /\ svg.props.fill # "#452393"
           /\ Len(svg.children) = 2
           /\ {n \in {Node(i)} \cup Descendants(Node(i)) :
                 "fill" \in DOMAIN n.props /\ n.props.fill = "#452393"}
                = {svg.children[1], svg.children[2]}
           /\ svg.children[1].type = "path"
           /\ svg.children[2].type = "path"
           /\ svg.children[1] # svg.children[2]

\* Reached: a returned tree whose svg has the fill "none" and whose two
\* paths have the fill "#452393".
C17_Witness ==
  \E i \in DOMAIN calls :
    /\ ~Threw(i)
    /\ \E svg \in Icons(i) :
         /\ svg.props.fill = "none"
         /\ svg.children[1].props.fill = "#452393"
         /\ svg.children[2].props.fill = "#452393"

(***************************************************************************)
(* C18.  Every output has the same shape: a Link whose only prop is the    *)
(* href, with one child, an anchor without props, with one child, the svg, *)
(* with two children, the two paths in their order; what stands below the  *)
(* Link is the same for every identifier, which shows in the href only.    *)
(***************************************************************************)
C18_FixedTreeShape ==
  /\ \A i \in DOMAIN calls :
       ~Threw(i) =>
         LET link == Node(i)
         IN  /\ link.type = "Link"
             /\ DOMAIN link.props = {"href"}
             /\ Len(link.children) = 1
             /\ LET a == link.children[1]
                IN  /\ a.type = "a"
                    /\ DOMAIN a.props = {}
                    /\ Len(a.children) = 1
                    /\ LET svg == a.children[1]
                       IN  /\ svg.type = "svg"
                           /\ Len(svg.children) = 2
                           /\ svg.children[1] = IconPath1
                           /\ svg.children[2] = IconPath2
                           /\ svg.children[1].type = "path"
                           /\ svg.children[2].type = "path"
                           /\ svg.children[1].children = <<>>
                           /\ svg.children[2].children = <<>>
  /\ \A i, j \in DOMAIN calls :
       (~Threw(i) /\ ~Threw(j)) => Node(i).children = Node(j).children

\* Reached: two calls with different identifiers returned Links with
\* different hrefs over the same anchor, which has no props.
C18_Witness ==
  \E i, j \in DOMAIN calls :
    /\ ~Threw(i) /\ ~Threw(j)
    /\ Node(i).props.href # Node(j).props.href
    /\ Node(i).children = Node(j).children
    /\ Node(i).children[1].type = "a"
    /\ DOMAIN Node(i).children[1].props = {}

=============================================================================
